---------------------------- MODULE Spec2Model ----------------------------
(***************************************************************************)
(* A model of GyroSpace.h: the process-wide gravity estimate gravNorm      *)
(* with UpdateGravityVector / SetGravityVector / GetGravityVector, and the *)
(* four gyro-space transforms with their function-local static             *)
(* smoothedTiltFactor accumulators.                                        *)
(*                                                                         *)
(* A C float is modelled as a small float: a signed fixed-point number     *)
(* with Scale steps per unit and magnitude at most FltMax, or NaN, or      *)
(* +Inf / -Inf.  Arithmetic follows IEEE-754: a finite result is rounded   *)
(* toward zero to the next step, a result beyond FltMax overflows to the   *)
(* infinity of its sign, Inf - Inf and 0 * Inf are NaN, NaN propagates,    *)
(* and every ordered comparison with a NaN is false.                       *)
(***************************************************************************)
EXTENDS Integers, Sequences, FiniteSets

(***************************************************************************)
(* Bounds of the model.                                                    *)
(*   MaxMagnitude  the largest finite magnitude of the small float, in     *)
(*                 units (it stands for FLT_MAX; a product or sum beyond   *)
(*                 it is an infinity)                                      *)
(*   MaxCalls      the number of library calls in one behaviour            *)
(***************************************************************************)
MaxMagnitude == 200
MaxCalls == 2

Scale == 10 ^ 6
Kilo == 10 ^ 3
FltMax == MaxMagnitude * Scale

---------------------------------------------------------------------------
(* float values                                                            *)

Fin(n) == [k |-> "fin", v |-> n]
NaN == [k |-> "nan", v |-> 0]
PInf == [k |-> "inf", v |-> 1]
NInf == [k |-> "inf", v |-> -1]

Zero == Fin(0)
One == Fin(Scale)

\* a decimal literal of the source: units + micro / 10^6
Lit(units, micro) == Fin(units * Scale + micro)

isnan(a) == a.k = "nan"
IsInf(a) == a.k = "inf"
IsFin(a) == a.k = "fin"

AbsInt(n) == IF n < 0 THEN -n ELSE n
SgnInt(n) == IF n < 0 THEN -1 ELSE IF n > 0 THEN 1 ELSE 0

\* a finite result, overflowing to the infinity of its sign beyond FltMax
Round(n) == IF n > FltMax THEN PInf ELSE IF n < -FltMax THEN NInf ELSE Fin(n)

Neg(a) == IF isnan(a) THEN NaN ELSE [k |-> a.k, v |-> -a.v]

fabsf(a) == IF isnan(a) THEN NaN ELSE [k |-> a.k, v |-> AbsInt(a.v)]

Add(a, b) ==
    IF isnan(a) \/ isnan(b) THEN NaN
    ELSE IF IsInf(a) /\ IsInf(b) THEN (IF a.v = b.v THEN a ELSE NaN)
    ELSE IF IsInf(a) THEN a
    ELSE IF IsInf(b) THEN b
    ELSE Round(a.v + b.v)

Sub(a, b) == Add(a, Neg(b))

\* floor(m * n / Scale) for 0 <= m, n <= FltMax, or FltMax + 1 when the
\* product is beyond FltMax; no intermediate leaves 32 bits
MulAbs(m, n) ==
    LET mh == m \div Kilo
        ml == m % Kilo
        nh == n \div Kilo
        nl == n % Kilo
    IN  IF nh > 0 /\ mh > FltMax \div nh THEN FltMax + 1
        ELSE mh * nh + ((mh * nl + ml * nh) + (ml * nl) \div Kilo) \div Kilo

Mul(a, b) ==
    IF isnan(a) \/ isnan(b) THEN NaN
    ELSE IF IsInf(a) \/ IsInf(b)
         THEN (IF a.v = 0 \/ b.v = 0 THEN NaN
               ELSE [k |-> "inf", v |-> SgnInt(a.v) * SgnInt(b.v)])
    ELSE Round(SgnInt(a.v) * SgnInt(b.v) * MulAbs(AbsInt(a.v), AbsInt(b.v)))

\* floor(r * 10^digits / d) + acc * 10^digits for 0 <= r < d <= FltMax, by
\* long division
RECURSIVE LongDiv(_, _, _, _)
LongDiv(r, d, digits, acc) ==
    IF digits = 0 THEN acc
    ELSE LongDiv((r * 10) % d, d, digits - 1, acc * 10 + (r * 10) \div d)

\* floor(m * Scale / d) for 0 <= m <= FltMax, 0 < d <= FltMax, or FltMax + 1
\* when the quotient is beyond FltMax
DivAbs(m, d) ==
    IF m \div d > MaxMagnitude THEN FltMax + 1
    ELSE LongDiv(m % d, d, 6, m \div d)

\* a * (1.0f / b): the quotient a / b.  The reciprocal is not rounded on
\* its own (1 / EPSILON is beyond the range of the small float); the IEEE
\* cases agree: 1 / Inf is 0, 1 / 0 is Inf, 0 * Inf is NaN.
MulRecip(a, b) ==
    IF isnan(a) \/ isnan(b) THEN NaN
    ELSE IF IsInf(b) THEN (IF IsInf(a) THEN NaN ELSE Zero)
    ELSE IF b.v = 0
         THEN (IF a.v = 0 THEN NaN ELSE [k |-> "inf", v |-> SgnInt(a.v)])
    ELSE IF IsInf(a) THEN [k |-> "inf", v |-> a.v * SgnInt(b.v)]
    ELSE Round(SgnInt(a.v) * SgnInt(b.v) * DivAbs(AbsInt(a.v), AbsInt(b.v)))

\* r * r = SqHi(r) * Scale + SqLo(r) for 0 <= r: the square of a small float
\* held to full precision, as the relative precision of a float holds the
\* square of a small value
SqMid(r) ==
    (2 * (r \div Kilo) * (r % Kilo)) + (((r % Kilo) * (r % Kilo)) \div Kilo)
SqHi(r) ==
    IF r >= Kilo /\ r \div Kilo > FltMax \div (r \div Kilo) THEN FltMax + 1
    ELSE ((r \div Kilo) * (r \div Kilo)) + (SqMid(r) \div Kilo)
SqLo(r) == ((SqMid(r) % Kilo) * Kilo) + (((r % Kilo) * (r % Kilo)) % Kilo)

\* the largest r in lo .. hi - 1 with r * r <= hiPart * Scale + loPart
SqLeq(r, rHi, hiPart, loPart) ==
    rHi < hiPart \/ (rHi = hiPart /\ SqLo(r) <= loPart)

\* the largest k in lo .. hi - 1 with k * k <= n, for n <= FltMax + 1
RECURSIVE IntSqrt(_, _, _)
IntSqrt(n, lo, hi) ==
    IF hi - lo <= 1 THEN lo
    ELSE IF ((lo + hi) \div 2) * ((lo + hi) \div 2) <= n
         THEN IntSqrt(n, (lo + hi) \div 2, hi)
         ELSE IntSqrt(n, lo, (lo + hi) \div 2)

\* the largest r in lo .. hi - 1 with r * r <= hiPart * Scale + loPart
RECURSIVE SqrtSearch(_, _, _, _)
SqrtSearch(hiPart, loPart, lo, hi) ==
    IF hi - lo <= 1 THEN lo
    ELSE IF SqLeq((lo + hi) \div 2, SqHi((lo + hi) \div 2), hiPart, loPart)
         THEN SqrtSearch(hiPart, loPart, (lo + hi) \div 2, hi)
         ELSE SqrtSearch(hiPart, loPart, lo, (lo + hi) \div 2)

\* with k = floor(sqrt(hiPart)), the root lies in k * Kilo .. (k + 1) * Kilo - 1
SqrtFrom(hiPart, loPart, k) ==
    SqrtSearch(hiPart, loPart, k * Kilo, (k + 1) * Kilo)

\* floor(sqrt(hiPart * Scale + loPart)) for 0 <= hiPart <= FltMax
SqrtAbs(hiPart, loPart) ==
    SqrtFrom(hiPart, loPart, IntSqrt(hiPart, 0, 32 * Kilo))

sqrtf(a) ==
    IF isnan(a) THEN NaN
    ELSE IF a.v < 0 THEN NaN
    ELSE IF IsInf(a) THEN PInf
    ELSE Fin(SqrtAbs(a.v, 0))

\* powf(a, 0.75f) for a >= 0 or NaN, as sqrt(a) * sqrt(sqrt(a))
RootTimesRoot(root) == Mul(root, sqrtf(root))

powf075(a) == RootTimesRoot(sqrtf(a))

\* the ordered comparisons of C: false when either side is a NaN
Key(a) == IF IsInf(a) THEN a.v * (FltMax + 1) ELSE a.v
Lt(a, b) == ~isnan(a) /\ ~isnan(b) /\ Key(a) < Key(b)
Gt(a, b) == Lt(b, a)

EPSILON == Fin(10)

clamp(value, min, max) ==
    IF Gt(value, max) THEN max ELSE IF Lt(value, min) THEN min ELSE value

---------------------------------------------------------------------------
(* Vector3                                                                 *)

Vec3_New(x, y, z) == [x |-> x, y |-> y, z |-> z]

Vec3_Add(a, b) == Vec3_New(Add(a.x, b.x), Add(a.y, b.y), Add(a.z, b.z))

Vec3_Subtract(a, b) == Vec3_New(Sub(a.x, b.x), Sub(a.y, b.y), Sub(a.z, b.z))

Vec3_Scale(v, scalar) ==
    Vec3_New(Mul(v.x, scalar), Mul(v.y, scalar), Mul(v.z, scalar))

Vec3_Dot(a, b) == Add(Add(Mul(a.x, b.x), Mul(a.y, b.y)), Mul(a.z, b.z))

Vec3_Cross(a, b) ==
    Vec3_New(Sub(Mul(a.y, b.z), Mul(a.z, b.y)),
             Sub(Mul(a.z, b.x), Mul(a.x, b.z)),
             Sub(Mul(a.x, b.y), Mul(a.y, b.x)))

\* sqrtf(v.x * v.x + v.y * v.y + v.z * v.z): NaN from a NaN component, Inf
\* when a square or the sum overflows, else the root of the exact sum
SumOfSquares(ax, ay, az, lo) ==
    IF SqHi(ax) > FltMax \/ SqHi(ay) > FltMax \/ SqHi(az) > FltMax
       \/ SqHi(ax) + SqHi(ay) + SqHi(az) + (lo \div Scale) > FltMax
    THEN PInf
    ELSE Fin(SqrtAbs(SqHi(ax) + SqHi(ay) + SqHi(az) + (lo \div Scale),
                     lo % Scale))

Vec3_Magnitude(v) ==
    IF isnan(v.x) \/ isnan(v.y) \/ isnan(v.z) THEN NaN
    ELSE IF IsInf(v.x) \/ IsInf(v.y) \/ IsInf(v.z) THEN PInf
    ELSE SumOfSquares(AbsInt(v.x.v), AbsInt(v.y.v), AbsInt(v.z.v),
                      SqLo(AbsInt(v.x.v)) + SqLo(AbsInt(v.y.v))
                          + SqLo(AbsInt(v.z.v)))

\* Vec3_Scale(v, 1.0f / magnitude), or the zero vector below EPSILON
NormalizeBy(v, magnitude) ==
    IF Lt(magnitude, EPSILON) THEN Vec3_New(Zero, Zero, Zero)
    ELSE Vec3_New(MulRecip(v.x, magnitude), MulRecip(v.y, magnitude),
                  MulRecip(v.z, magnitude))

Vec3_Normalize(v) == NormalizeBy(v, Vec3_Magnitude(v))

Vec3_IsZero(v) ==
    Lt(fabsf(v.x), EPSILON) /\ Lt(fabsf(v.y), EPSILON) /\ Lt(fabsf(v.z), EPSILON)

Vec3_Lerp(a, b, t) == Vec3_Add(a, Vec3_Scale(Vec3_Subtract(b, a), t))

\* Matrix4_Identity() as the rows m[0] .. m[3]
Matrix4_Identity ==
    << <<One, Zero, Zero, Zero>>, <<Zero, One, Zero, Zero>>,
       <<Zero, Zero, One, Zero>>, <<Zero, Zero, Zero, One>> >>

\* m[r][c] of the source is matrix[r + 1][c + 1]
MultiplyMatrixVector(matrix, vector) ==
    LET w == One
        Col(c) == Add(Add(Add(Mul(matrix[1][c], vector.x),
                              Mul(matrix[2][c], vector.y)),
                          Mul(matrix[3][c], vector.z)),
                      Mul(matrix[4][c], w))
    IN  Vec3_New(Col(1), Col(2), Col(3))

DefaultGravity == Vec3_New(Zero, One, Zero)

---------------------------------------------------------------------------
(* The program state.  The file-scope static gravNorm and the four         *)
(* function-local statics smoothedTiltFactor, one per transform, are the   *)
(* persistent state; call records the last library call made (function,   *)
(* arguments, whether the call before it was the same call, the state it   *)
(* started from, its return value, the transforms that ran) and calls      *)
(* counts the calls made.                                                  *)

VARIABLES gravNorm, smoothedTiltFactor, call, calls

vars == <<gravNorm, smoothedTiltFactor, call, calls>>

Transforms ==
    {"TransformWithDynamicOrientation", "TransformToLocalSpace",
     "TransformToPlayerSpace", "TransformToWorldSpace"}

\* the persistent state as one value: what a C function reads and writes
Statics(g, tilt) == [gravNorm |-> g, tilt |-> tilt]

\* what a function leaves behind: the statics, the value returned (<<>> for
\* void) and the transforms that ran to their end during the call, in the
\* order they returned, each with the gravity vector it used and its value
Outcome(g, tilt, ret, trace) ==
    [gravNorm |-> g, tilt |-> tilt, ret |-> ret, trace |-> trace]

\* a transform fn returns ret, having used the gravity vector gravity
Returned(fn, g, tilt, gravity, ret) ==
    Outcome(g, tilt, ret, <<[fn |-> fn, gravity |-> gravity, ret |-> ret]>>)

---------------------------------------------------------------------------
(* Global gravity vector management                                        *)

\* the end of UpdateGravityVector: the blended vector normalized, or the
\* default when it is near zero
Renormalize(st, blended) ==
    IF ~Vec3_IsZero(blended)
    THEN Outcome(Vec3_Normalize(blended), st.tilt, <<>>, <<>>)
    ELSE Outcome(DefaultGravity, st.tilt, <<>>, <<>>)

\* fusionFactor < 0.0f || fusionFactor > 1.0f
InvalidFusionFactor_NoUpperBound(fusionFactor) == Lt(fusionFactor, Zero)

InvalidFusionFactor(fusionFactor) ==
    Lt(fusionFactor, Zero) \/ Gt(fusionFactor, One)

UpdateGravityVector(st, accel, gyroRotation, fusionFactor) ==
    IF InvalidFusionFactor(fusionFactor)
    THEN Outcome(st.gravNorm, st.tilt, <<>>, <<>>)
    ELSE IF isnan(accel.x) \/ isnan(accel.y) \/ isnan(accel.z)
            \/ isnan(gyroRotation.x) \/ isnan(gyroRotation.y)
            \/ isnan(gyroRotation.z)
    THEN Outcome(st.gravNorm, st.tilt, <<>>, <<>>)
    ELSE LET accelNorm == Vec3_Normalize(accel)
             rotatedGravity ==
                 Vec3_Add(st.gravNorm, Vec3_Cross(gyroRotation, st.gravNorm))
         IN  Renormalize(st, Vec3_Lerp(rotatedGravity, accelNorm, fusionFactor))

\* SetGravityVector for arguments without a NaN
SetValidGravity(st, newGravNorm) ==
    IF Lt(Vec3_Magnitude(newGravNorm), EPSILON)
    THEN Outcome(st.gravNorm, st.tilt, <<>>, <<>>)
    ELSE Outcome(Vec3_Normalize(newGravNorm), st.tilt, <<>>, <<>>)

SetGravityVector_SilentNaN(st, x, y, z) ==
    IF isnan(x) \/ isnan(y) \/ isnan(z)
    THEN Outcome(st.gravNorm, st.tilt, <<>>, <<>>)
    ELSE SetValidGravity(st, Vec3_New(x, y, z))

SetGravityVector(st, x, y, z) ==
    IF isnan(x) \/ isnan(y) \/ isnan(z)
    THEN Outcome(DefaultGravity, st.tilt, <<>>, <<>>)
    ELSE SetValidGravity(st, Vec3_New(x, y, z))

GetGravityVector(st) == Outcome(st.gravNorm, st.tilt, st.gravNorm, <<>>)

ProcessSensorData(st, accel, gyroRotation, fusionFactor) ==
    UpdateGravityVector(st, accel, gyroRotation, fusionFactor)

AdjustGravityVectorManually(st, x, y, z) == SetGravityVector(st, x, y, z)

---------------------------------------------------------------------------
(* Gyro space transformations                                              *)

smoothingFactor_Overshoot == Lit(2, 100000)

smoothingFactor == Lit(0, 100000)
yawRelaxFactor == Lit(1, 410000)
PlayerThreshold == Lit(0, 500000)

\* smoothedTiltFactor + smoothingFactor * (blendAmount - smoothedTiltFactor)
\* with blendAmount = clamp(powf(fabsf(gravityY), 0.75f), 0.0f, 1.0f)
SmoothTilt(smoothed, gravityY) ==
    Add(smoothed,
        Mul(smoothingFactor,
            Sub(clamp(powf075(fabsf(gravityY)), Zero, One), smoothed)))

\* a * b * c of the source: (a * b) * c
Mul3(a, b, c) == Mul(Mul(a, b), c)

\* the vector TransformToLocalSpace returns for the smoothed tilt factor s
LocalGyro(s, yaw, pitch, roll, yawSensitivity, pitchSensitivity, rollSensitivity, couplingFactor) ==
    LET adjustedRoll ==
            Sub(Mul3(s, roll, rollSensitivity), Mul(yaw, couplingFactor))
        rawGyroZ == Add(Mul3(s, roll, rollSensitivity), Mul(Sub(One, s), roll))
    IN  Vec3_New(Sub(Mul(yaw, yawSensitivity), adjustedRoll),
                 Add(Mul3(s, pitch, pitchSensitivity), Mul(Sub(One, s), pitch)),
                 Mul(Neg(rawGyroZ), Sub(One, couplingFactor)))

LocalAdjust_SharedTilt(st, s, yaw, pitch, roll, yawSensitivity, pitchSensitivity, rollSensitivity, couplingFactor) ==
    Returned("TransformToLocalSpace", st.gravNorm, [t \in Transforms |-> s],
             st.gravNorm,
             LocalGyro(s, yaw, pitch, roll, yawSensitivity, pitchSensitivity,
                       rollSensitivity, couplingFactor))

\* Local space once the smoothedTiltFactor (s) is smoothed
LocalAdjust(st, s, yaw, pitch, roll, yawSensitivity, pitchSensitivity, rollSensitivity, couplingFactor) ==
    Returned("TransformToLocalSpace", st.gravNorm,
             [st.tilt EXCEPT !["TransformToLocalSpace"] = s], st.gravNorm,
             LocalGyro(s, yaw, pitch, roll, yawSensitivity, pitchSensitivity,
                       rollSensitivity, couplingFactor))

TransformToLocalSpace(st, yaw, pitch, roll, yawSensitivity, pitchSensitivity, rollSensitivity, couplingFactor) ==
    LocalAdjust(st,
        SmoothTilt(st.tilt["TransformToLocalSpace"], GetGravityVector(st).ret.y),
        yaw, pitch, roll, yawSensitivity, pitchSensitivity, rollSensitivity,
        couplingFactor)

\* Player space once the gravity vector (grav) is validated and the
\* smoothedTiltFactor (s) is smoothed
PlayerAdjust(st, s, yaw_input, pitch_input, roll_input, grav, yawSensitivity, pitchSensitivity, rollSensitivity) ==
    LET worldYaw == Add(Mul(yaw_input, grav.y), Mul(roll_input, grav.z))
        localYaw == Add(Mul3(s, yaw_input, yawSensitivity),
                        Mul3(Sub(One, s), roll_input, rollSensitivity))
        adjustedYaw == Add(Mul(worldYaw, yawRelaxFactor),
                           Mul(localYaw, Sub(One, yawRelaxFactor)))
        adjustedPitch == Add(Mul3(s, pitch_input, pitchSensitivity),
                             Mul(Sub(One, s), pitch_input))
        adjustedRoll == Add(Mul3(s, roll_input, rollSensitivity),
                            Mul3(Sub(One, s), yaw_input, yawSensitivity))
        adjustedGyro == Vec3_New(adjustedYaw, adjustedPitch, Neg(adjustedRoll))
    IN  Returned("TransformToPlayerSpace", st.gravNorm,
                 [st.tilt EXCEPT !["TransformToPlayerSpace"] = s], grav,
                 MultiplyMatrixVector(Matrix4_Identity, adjustedGyro))

ValidGravity_NoSubstitution(gravArg) == gravArg

\* the gravity vector Player and World use: the default for a near-zero one
ValidGravity(gravArg) ==
    IF Vec3_IsZero(gravArg) THEN DefaultGravity ELSE gravArg

TransformToPlayerSpace_WritesGlobal(st, yaw_input, pitch_input, roll_input, gravArg, yawSensitivity, pitchSensitivity, rollSensitivity) ==
    PlayerAdjust(Statics(ValidGravity(gravArg), st.tilt),
        SmoothTilt(st.tilt["TransformToPlayerSpace"], ValidGravity(gravArg).y),
        yaw_input, pitch_input, roll_input, ValidGravity(gravArg),
        yawSensitivity, pitchSensitivity, rollSensitivity)

\* gravArg is the parameter the source also names gravNorm: it shadows the
\* global, so the substitution of the default writes the parameter only
TransformToPlayerSpace(st, yaw_input, pitch_input, roll_input, gravArg, yawSensitivity, pitchSensitivity, rollSensitivity) ==
    PlayerAdjust(st,
        SmoothTilt(st.tilt["TransformToPlayerSpace"], ValidGravity(gravArg).y),
        yaw_input, pitch_input, roll_input, ValidGravity(gravArg),
        yawSensitivity, pitchSensitivity, rollSensitivity)

\* axis - gravNorm * dot(gravNorm, axis), normalized unless near zero
GravityOrthogonal(axis, proj) ==
    IF ~Vec3_IsZero(proj) THEN Vec3_Normalize(proj) ELSE proj

\* the projection of rawGyro on gravity and the two axes orthogonal to it
WorldProject(rawGyro, grav, pitchAxis, rollAxis) ==
    Vec3_New(Neg(Vec3_Dot(rawGyro, grav)), Vec3_Dot(rawGyro, pitchAxis),
             Vec3_Dot(rawGyro, rollAxis))

\* World space once the gravity vector (grav) is validated and the
\* smoothedTiltFactor (s) is smoothed
WorldAdjust(st, s, yaw_input, pitch_input, roll_input, grav, yawSensitivity, pitchSensitivity, rollSensitivity) ==
    LET xAxis == Vec3_New(One, Zero, Zero)
        zAxis == Vec3_New(Zero, Zero, One)
    IN  Returned("TransformToWorldSpace", st.gravNorm,
            [st.tilt EXCEPT !["TransformToWorldSpace"] = s], grav,
            WorldProject(
                Vec3_New(Add(Mul3(s, pitch_input, pitchSensitivity),
                             Mul(Sub(One, s), pitch_input)),
                         Neg(Mul(yaw_input, yawSensitivity)),
                         Neg(Add(Mul3(s, roll_input, rollSensitivity),
                                 Mul3(Sub(One, s), yaw_input, yawSensitivity)))),
                grav,
                GravityOrthogonal(xAxis,
                    Vec3_Subtract(xAxis,
                        Vec3_Scale(grav, Vec3_Dot(grav, xAxis)))),
                GravityOrthogonal(zAxis,
                    Vec3_Subtract(zAxis,
                        Vec3_Scale(grav, Vec3_Dot(grav, zAxis))))))

TransformToWorldSpace(st, yaw_input, pitch_input, roll_input, gravArg, yawSensitivity, pitchSensitivity, rollSensitivity) ==
    WorldAdjust(st,
        SmoothTilt(st.tilt["TransformToWorldSpace"], ValidGravity(gravArg).y),
        yaw_input, pitch_input, roll_input, ValidGravity(gravArg),
        yawSensitivity, pitchSensitivity, rollSensitivity)

DispatchesToPlayer_Inclusive(grav) == ~Lt(grav.y, PlayerThreshold)

\* (gravNorm.y > 0.5f) of the dispatch
DispatchesToPlayer(grav) == Gt(grav.y, PlayerThreshold)

\* the end of TransformWithDynamicOrientation: the value of the transform
\* dispatched to is returned
DynamicReturn(grav, local, adjusted) ==
    Outcome(adjusted.gravNorm, adjusted.tilt, adjusted.ret,
            local.trace \o adjusted.trace
                \o <<[fn |-> "TransformWithDynamicOrientation",
                      gravity |-> grav, ret |-> adjusted.ret]>>)

\* the further transformation of localGyro into Player or World space
DynamicDispatch(grav, local, yawSensitivity, pitchSensitivity, rollSensitivity) ==
    DynamicReturn(grav, local,
        IF DispatchesToPlayer(grav)
        THEN TransformToPlayerSpace(Statics(local.gravNorm, local.tilt),
                 local.ret.x, local.ret.y, local.ret.z, grav,
                 yawSensitivity, pitchSensitivity, rollSensitivity)
        ELSE TransformToWorldSpace(Statics(local.gravNorm, local.tilt),
                 local.ret.x, local.ret.y, local.ret.z, grav,
                 yawSensitivity, pitchSensitivity, rollSensitivity))

\* the body of TransformWithDynamicOrientation once its gravNorm (grav) and
\* its smoothedTiltFactor (s) are computed
DynamicAdjust(st, grav, s, yaw_input, pitch_input, roll_input, yawSensitivity, pitchSensitivity, rollSensitivity, couplingFactor) ==
    DynamicDispatch(grav,
        TransformToLocalSpace(
            Statics(st.gravNorm,
                    [st.tilt EXCEPT !["TransformWithDynamicOrientation"] = s]),
            Mul(yaw_input, yawSensitivity),
            Add(Mul3(s, pitch_input, pitchSensitivity),
                Mul(Sub(One, s), pitch_input)),
            Add(Mul3(s, roll_input, rollSensitivity),
                Mul(Sub(One, s), roll_input)),
            yawSensitivity, pitchSensitivity, rollSensitivity, couplingFactor),
        yawSensitivity, pitchSensitivity, rollSensitivity)

TransformWithDynamicOrientation(st, yaw_input, pitch_input, roll_input, yawSensitivity, pitchSensitivity, rollSensitivity, couplingFactor) ==
    DynamicAdjust(st, GetGravityVector(st).ret,
        SmoothTilt(st.tilt["TransformWithDynamicOrientation"],
                   GetGravityVector(st).ret.y),
        yaw_input, pitch_input, roll_input, yawSensitivity, pitchSensitivity,
        rollSensitivity, couplingFactor)

---------------------------------------------------------------------------
(* The arguments the calls are made with                                   *)

\* a vector given in millionths
Vec(x, y, z) == Vec3_New(Fin(x), Fin(y), Fin(z))

\* a finite float whose square is beyond the largest float (1e20f in C)
Huge == Fin((MaxMagnitude \div 10) * Scale)

\* below 0, the ends and the middle of [0, 1], above 1, NaN
FusionFactors ==
    {Lit(0, -100000), Zero, Lit(0, 500000), One, Lit(1, 300000), NaN}

\* accelerometer readings; a call may also pass the current estimate
AccelInputs ==
    {Vec(0, -1000000, 0), Vec(0, 0, 9800000), Vec3_New(NaN, Zero, One)}

GyroInputs ==
    {Vec(0, 0, 0), Vec(100000, 0, -200000), Vec3_New(Zero, NaN, Zero)}

\* zero, below EPSILON, NaN, unit, not unit, y near the dispatch threshold,
\* y negative, too large to square
SetInputs ==
    {Vec(0, 0, 0), Vec(5, 5, 0), Vec3_New(NaN, Zero, Zero), Vec(0, 1000000, 0),
     Vec(600000, 800000, 0), Vec(0, 500000, 866025), Vec(0, -2000000, 0),
     Vec(3000000, 1000000, 0), Vec3_New(Huge, Zero, Zero)}

\* the sample of Example/gyrospace-example.c
Rates == {Vec(10000000, 5000000, 3000000)}

Sensitivities == {Vec(1000000, 1000000, 1000000), Vec(2000000, 500000, 1500000)}

CouplingFactors == {Lit(0, 75000)}

\* gravity arguments of Player / World: zero, below EPSILON, the default,
\* unit, not unit; a call may also pass the current estimate, as
\* Example/gyrospace-example.c does
GravityArgs ==
    {Vec(0, 0, 0), Vec(5, -5, 5), Vec(0, 1000000, 0), Vec(600000, 800000, 0),
     Vec(0, -500000, 500000)}

---------------------------------------------------------------------------
(* The state machine: one action per library function                      *)

Current == Statics(gravNorm, smoothedTiltFactor)

Init ==
    /\ gravNorm = DefaultGravity
    /\ smoothedTiltFactor = [t \in Transforms |-> One]
    /\ call = [op |-> "none", args |-> <<>>, repeated |-> FALSE,
               pre |-> Statics(DefaultGravity, [t \in Transforms |-> One]),
               ret |-> <<>>, trace |-> <<>>]
    /\ calls = 0

\* the call op(args) runs to its end and leaves out behind
Return(op, args, out) ==
    /\ calls < MaxCalls
    /\ gravNorm' = out.gravNorm
    /\ smoothedTiltFactor' = out.tilt
    /\ call' = [op |-> op, args |-> args,
                repeated |-> (call.op = op /\ call.args = args),
                pre |-> Current, ret |-> out.ret, trace |-> out.trace]
    /\ calls' = calls + 1

Call_UpdateGravityVector ==
    \E accel \in AccelInputs \cup {gravNorm}, gyroRotation \in GyroInputs,
       fusionFactor \in FusionFactors :
        Return("UpdateGravityVector", <<accel, gyroRotation, fusionFactor>>,
               UpdateGravityVector(Current, accel, gyroRotation, fusionFactor))

Call_SetGravityVector ==
    \E v \in SetInputs :
        Return("SetGravityVector", <<v.x, v.y, v.z>>,
               SetGravityVector(Current, v.x, v.y, v.z))

Call_GetGravityVector ==
    Return("GetGravityVector", <<>>, GetGravityVector(Current))

Call_TransformToLocalSpace ==
    \E r \in Rates, sens \in Sensitivities, c \in CouplingFactors :
        Return("TransformToLocalSpace", <<r, sens, c>>,
               TransformToLocalSpace(Current, r.x, r.y, r.z,
                                     sens.x, sens.y, sens.z, c))

Call_TransformToPlayerSpace ==
    \E r \in Rates, g \in GravityArgs \cup {gravNorm}, sens \in Sensitivities :
        Return("TransformToPlayerSpace", <<r, g, sens>>,
               TransformToPlayerSpace(Current, r.x, r.y, r.z, g,
                                      sens.x, sens.y, sens.z))

Call_TransformToWorldSpace ==
    \E r \in Rates, g \in GravityArgs \cup {gravNorm}, sens \in Sensitivities :
        Return("TransformToWorldSpace", <<r, g, sens>>,
               TransformToWorldSpace(Current, r.x, r.y, r.z, g,
                                     sens.x, sens.y, sens.z))

Call_TransformWithDynamicOrientation ==
    \E r \in Rates, sens \in Sensitivities, c \in CouplingFactors :
        Return("TransformWithDynamicOrientation", <<r, sens, c>>,
               TransformWithDynamicOrientation(Current, r.x, r.y, r.z,
                                               sens.x, sens.y, sens.z, c))

Next ==
    \/ Call_UpdateGravityVector
    \/ Call_SetGravityVector
    \/ Call_GetGravityVector
    \/ Call_TransformToLocalSpace
    \/ Call_TransformToPlayerSpace
    \/ Call_TransformToWorldSpace
    \/ Call_TransformWithDynamicOrientation

Spec == Init /\ [][Next]_vars

(***************************************************************************)
(* Properties.  Each is a predicate of the state after the last call: call *)
(* holds the function, its arguments, the statics it started from (pre),   *)
(* its return value and the transforms that ran.                           *)
(***************************************************************************)
Called(op) == call.op = op

AnyNaN(v) == isnan(v.x) \/ isnan(v.y) \/ isnan(v.z)

\* |a - b| <= tol, false when either is NaN
Within(a, b, tol) == IsFin(a) /\ IsFin(b) /\ AbsInt(a.v - b.v) <= tol

\* a hundred steps of the number model: 1e-4
Tolerance == 10 ^ 2

\* every component has absolute value below EPSILON
Degenerate(v) ==
    Lt(fabsf(v.x), EPSILON) /\ Lt(fabsf(v.y), EPSILON) /\ Lt(fabsf(v.z), EPSILON)

\* g is v scaled to length one: unit length, parallel to v, same direction
IsNormalizedOf(g, v) ==
    /\ Within(Vec3_Magnitude(g), One, Tolerance)
    /\ Gt(Vec3_Dot(v, g), Zero)
    /\ Within(Vec3_Cross(v, g).x, Zero, Tolerance)
    /\ Within(Vec3_Cross(v, g).y, Zero, Tolerance)
    /\ Within(Vec3_Cross(v, g).z, Zero, Tolerance)

\* C1: a call of UpdateGravityVector whose fusionFactor is a number below 0
\* or above 1, or whose accel or gyroRotation has a NaN component, leaves
\* the gravity estimate exactly as it was before the call.
C1_RejectedUpdateKeepsGravity ==
    (/\ Called("UpdateGravityVector")
     /\ \/ Lt(call.args[3], Zero)
        \/ Gt(call.args[3], One)
        \/ AnyNaN(call.args[1])
        \/ AnyNaN(call.args[2]))
        => gravNorm = call.pre.gravNorm

\* an update with fusionFactor 1.3 and NaN-free vectors was made on an
\* estimate other than the default, which it left in place
C1_Witness ==
    /\ Called("UpdateGravityVector")
    /\ call.args[3] = Lit(1, 300000)
    /\ ~AnyNaN(call.args[1]) /\ ~AnyNaN(call.args[2])
    /\ call.pre.gravNorm = Vec(600000, 800000, 0)
    /\ call.args[1] # call.pre.gravNorm
    /\ gravNorm = call.pre.gravNorm

\* C2: after any sequence of UpdateGravityVector and SetGravityVector calls
\* whose arguments are each a finite number or NaN, no component of the
\* gravity estimate is NaN and at least one component has absolute value of
\* EPSILON or more.
C2_GravityNeverNaNNorDegenerate == ~AnyNaN(gravNorm) /\ ~Degenerate(gravNorm)

\* C3: SetGravityVector(x, y, z) keeps the gravity estimate when no argument
\* is NaN and the magnitude of (x, y, z) is below EPSILON, sets it to
\* (0, 1, 0) when an argument is NaN, and in every other case sets it to
\* (x, y, z) normalized.
C3_SetGravityThreeCases ==
    Called("SetGravityVector") =>
        LET v == Vec3_New(call.args[1], call.args[2], call.args[3])
        IN  IF AnyNaN(v) THEN gravNorm = DefaultGravity
            ELSE IF Lt(Vec3_Magnitude(v), EPSILON)
            THEN gravNorm = call.pre.gravNorm
            ELSE IsNormalizedOf(gravNorm, v)

\* the functions of the library
LibraryFunctions ==
    {"UpdateGravityVector", "SetGravityVector", "GetGravityVector",
     "ProcessSensorData", "AdjustGravityVectorManually"} \cup Transforms

\* the gravity estimates a call of f can leave behind in the current state
GravityAfter(f) ==
    CASE f = "UpdateGravityVector" ->
            {UpdateGravityVector(Current, a, g, ff).gravNorm :
                a \in AccelInputs \cup {gravNorm}, g \in GyroInputs,
                ff \in FusionFactors}
      [] f = "SetGravityVector" ->
            {SetGravityVector(Current, v.x, v.y, v.z).gravNorm : v \in SetInputs}
      [] f = "GetGravityVector" -> {GetGravityVector(Current).gravNorm}
      [] f = "ProcessSensorData" ->
            {ProcessSensorData(Current, a, g, ff).gravNorm :
                a \in AccelInputs \cup {gravNorm}, g \in GyroInputs,
                ff \in FusionFactors}
      [] f = "AdjustGravityVectorManually" ->
            {AdjustGravityVectorManually(Current, v.x, v.y, v.z).gravNorm :
                v \in SetInputs}
      [] f = "TransformToLocalSpace" ->
            {TransformToLocalSpace(Current, r.x, r.y, r.z, sens.x, sens.y,
                                   sens.z, c).gravNorm :
                r \in Rates, sens \in Sensitivities, c \in CouplingFactors}
      [] f = "TransformToPlayerSpace" ->
            {TransformToPlayerSpace(Current, r.x, r.y, r.z, g, sens.x, sens.y,
                                    sens.z).gravNorm :
                r \in Rates, g \in GravityArgs \cup {gravNorm},
                sens \in Sensitivities}
      [] f = "TransformToWorldSpace" ->
            {TransformToWorldSpace(Current, r.x, r.y, r.z, g, sens.x, sens.y,
                                   sens.z).gravNorm :
                r \in Rates, g \in GravityArgs \cup {gravNorm},
                sens \in Sensitivities}
      [] f = "TransformWithDynamicOrientation" ->
            {TransformWithDynamicOrientation(Current, r.x, r.y, r.z, sens.x,
                                             sens.y, sens.z, c).gravNorm :
                r \in Rates, sens \in Sensitivities, c \in CouplingFactors}

\* C4 as stated: the library offers a reset operation that sets the gravity
\* estimate to (0, 1, 0) unconditionally, so in every state some function
\* of the library leaves (0, 1, 0) behind whatever its arguments.
C4_ResetOperationOffered ==
    \E f \in LibraryFunctions : GravityAfter(f) = {DefaultGravity}

\* C4: the library has no reset function; what sets the gravity estimate to
\* (0, 1, 0) from any state is SetGravityVector called with a NaN argument
\* or with (0, 1, 0) itself.
C4_SetGravityResets ==
    (/\ Called("SetGravityVector")
     /\ \/ isnan(call.args[1]) \/ isnan(call.args[2]) \/ isnan(call.args[3])
        \/ call.args = <<Zero, One, Zero>>)
        => gravNorm = DefaultGravity

\* SetGravityVector with a NaN argument replaced an estimate other than the
\* default by the default
C4_Witness ==
    /\ Called("SetGravityVector")
    /\ isnan(call.args[1]) \/ isnan(call.args[2]) \/ isnan(call.args[3])
    /\ call.pre.gravNorm # DefaultGravity
    /\ ~AnyNaN(call.pre.gravNorm)
    /\ gravNorm = DefaultGravity

\* C5: the gravity estimate is changed only by UpdateGravityVector and
\* SetGravityVector (ProcessSensorData and AdjustGravityVectorManually are
\* calls of these): GetGravityVector and the four transforms leave it as it
\* was, also when Player or World space substitutes the default for a
\* near-zero gravity argument.
C5_OnlyUpdateAndSetWriteGravity ==
    (Called("GetGravityVector") \/ call.op \in Transforms)
        => gravNorm = call.pre.gravNorm

\* Player space substituted the default for a near-zero argument while the
\* estimate was (0.6, 0.8, 0), and the estimate is still (0.6, 0.8, 0)
C5_Witness ==
    /\ Called("TransformToPlayerSpace")
    /\ Degenerate(call.args[2])
    /\ call.trace[1].gravity = DefaultGravity
    /\ call.pre.gravNorm = Vec(600000, 800000, 0)
    /\ gravNorm = call.pre.gravNorm

\* C6: TransformToPlayerSpace and TransformToWorldSpace called with a
\* gravity argument whose components are all below EPSILON in absolute
\* value return what they return for the argument (0, 1, 0), other inputs
\* and accumulator being the same, and leave the same accumulators behind.
C6_DegenerateGravityActsAsDefault ==
    /\ (Called("TransformToPlayerSpace") /\ Degenerate(call.args[2])) =>
        /\ call.ret = TransformToPlayerSpace(call.pre,
                call.args[1].x, call.args[1].y, call.args[1].z, DefaultGravity,
                call.args[3].x, call.args[3].y, call.args[3].z).ret
        /\ smoothedTiltFactor = TransformToPlayerSpace(call.pre,
                call.args[1].x, call.args[1].y, call.args[1].z, DefaultGravity,
                call.args[3].x, call.args[3].y, call.args[3].z).tilt
    /\ (Called("TransformToWorldSpace") /\ Degenerate(call.args[2])) =>
        /\ call.ret = TransformToWorldSpace(call.pre,
                call.args[1].x, call.args[1].y, call.args[1].z, DefaultGravity,
                call.args[3].x, call.args[3].y, call.args[3].z).ret
        /\ smoothedTiltFactor = TransformToWorldSpace(call.pre,
                call.args[1].x, call.args[1].y, call.args[1].z, DefaultGravity,
                call.args[3].x, call.args[3].y, call.args[3].z).tilt

\* World space was called with the gravity argument (5e-6, -5e-6, 5e-6)
\* when its accumulator had already left 1
C6_Witness ==
    /\ Called("TransformToWorldSpace")
    /\ call.args[2] = Vec(5, -5, 5)
    /\ call.pre.tilt["TransformToWorldSpace"] # One
    /\ IsFin(call.ret.x) /\ IsFin(call.ret.y) /\ IsFin(call.ret.z)

\* the entries of the last call's trace made by Player or World space
Dispatched ==
    {i \in 1..Len(call.trace) :
        call.trace[i].fn \in {"TransformToPlayerSpace", "TransformToWorldSpace"}}

\* C7: TransformWithDynamicOrientation reads the global gravity estimate
\* and runs exactly one of Player and World space on it: Player space when
\* the estimate's y is above 0.5, World space otherwise (y = 0.5 and
\* negative y included); what it returns is what that transform returned.
C7_DynamicDispatch ==
    Called("TransformWithDynamicOrientation") =>
        /\ Cardinality(Dispatched) = 1
        /\ \A i \in Dispatched :
            /\ call.trace[i].fn =
                    IF Gt(call.pre.gravNorm.y, Lit(0, 500000))
                    THEN "TransformToPlayerSpace" ELSE "TransformToWorldSpace"
            /\ call.trace[i].gravity =
                    IF Degenerate(call.pre.gravNorm) THEN DefaultGravity
                    ELSE call.pre.gravNorm
            /\ call.ret = call.trace[i].ret

\* the dynamic transform ran with the estimate's y at exactly 0.5 and went
\* to World space
C7_Witness ==
    /\ Called("TransformWithDynamicOrientation")
    /\ call.pre.gravNorm.y = Lit(0, 500000)
    /\ \E i \in Dispatched : call.trace[i].fn = "TransformToWorldSpace"

\* a is b, or each component of a is within Tolerance of b's
Close(a, b) ==
    \/ a = b
    \/ /\ Within(a.x, b.x, Tolerance)
       /\ Within(a.y, b.y, Tolerance)
       /\ Within(a.z, b.z, Tolerance)

\* C8: UpdateGravityVector(accel = g, gyroRotation = (0, 0, 0), fusionFactor
\* in [0, 1]) on the gravity estimate g leaves the estimate equal to g, up
\* to normalization, whatever g is.
C8_UpdateWithOwnGravityIsIdle ==
    (/\ Called("UpdateGravityVector")
     /\ call.args[1] = call.pre.gravNorm
     /\ call.args[2] = Vec(0, 0, 0)
     /\ ~Lt(call.args[3], Zero) /\ ~Gt(call.args[3], One)
     /\ ~isnan(call.args[3]))
        => Close(gravNorm, call.pre.gravNorm)

\* the transforms that ran during the last call
Ran == {call.trace[i].fn : i \in 1..Len(call.trace)}

\* the accumulators of the transforms in others are as before the call
TiltKept(others) ==
    \A t \in others : smoothedTiltFactor[t] = call.pre.tilt[t]

\* C9 as stated: a call of one of the four transforms changes only that
\* function's own smoothed tilt factor and leaves the other three as they
\* were.
C9_OnlyOwnTiltChanges ==
    call.op \in Transforms => TiltKept(Transforms \ {call.op})

\* C9: a call of Local, Player or World space changes only that function's
\* own smoothed tilt factor; a call of TransformWithDynamicOrientation runs
\* Local space and one of Player and World space, so it changes its own,
\* Local space's and that transform's, and leaves only the accumulator of
\* the transform it did not run as it was.
C9_TiltChangesWithTransformsRun ==
    /\ call.op \in Transforms \ {"TransformWithDynamicOrientation"} =>
        /\ Ran = {call.op}
        /\ TiltKept(Transforms \ {call.op})
    /\ Called("TransformWithDynamicOrientation") =>
        /\ \/ Ran = Transforms \ {"TransformToPlayerSpace"}
           \/ Ran = Transforms \ {"TransformToWorldSpace"}
        /\ TiltKept(Transforms \ Ran)

\* the dynamic transform changed its own accumulator, Local space's and
\* Player space's, and not World space's
C9_Witness ==
    /\ Called("TransformWithDynamicOrientation")
    /\ ~TiltKept({"TransformWithDynamicOrientation"})
    /\ ~TiltKept({"TransformToLocalSpace"})
    /\ ~TiltKept({"TransformToPlayerSpace"})
    /\ TiltKept({"TransformToWorldSpace"})

Dist(a, b) == fabsf(Sub(a, b))

\* one smoothing step from s to next with the fixed point target: the step
\* is s + 0.1 * (target - s), the distance to target does not grow, s does
\* not change sides, and s at target stays
StepsToward(s, next, target) ==
    /\ next = Add(s, Mul(Lit(0, 100000), Sub(target, s)))
    /\ ~Gt(Dist(next, target), Dist(s, target))
    /\ ~(Lt(s, target) /\ Gt(next, target))
    /\ ~(Gt(s, target) /\ Lt(next, target))
    /\ s = target => next = target

TiltTarget(gravityY) == clamp(powf075(fabsf(gravityY)), Zero, One)

\* C10 as stated: each call of TransformToPlayerSpace moves its smoothed
\* tilt factor s to s + 0.1 * (target - s) for target = clamp(|y|^0.75, 0,
\* 1), y the y of the gravity argument, with no growth of |s - target|, no
\* change of side, and s = target kept.
C10_TiltTowardArgumentTarget ==
    Called("TransformToPlayerSpace") =>
        StepsToward(call.pre.tilt["TransformToPlayerSpace"],
                    smoothedTiltFactor["TransformToPlayerSpace"],
                    TiltTarget(call.args[2].y))

\* C10: the same, for target = clamp(|y|^0.75, 0, 1) with y the y of the
\* gravity argument, or of (0, 1, 0) when every component of the argument
\* is below EPSILON in absolute value.
C10_TiltTowardValidatedTarget ==
    Called("TransformToPlayerSpace") =>
        StepsToward(call.pre.tilt["TransformToPlayerSpace"],
                    smoothedTiltFactor["TransformToPlayerSpace"],
                    TiltTarget(IF Degenerate(call.args[2]) THEN One
                               ELSE call.args[2].y))

\* the second of two identical Player space calls with gravity (0.6, 0.8,
\* 0) brought the accumulator strictly closer to its target
C10_Witness ==
    /\ Called("TransformToPlayerSpace")
    /\ call.repeated
    /\ call.args[2] = Vec(600000, 800000, 0)
    /\ Lt(Dist(smoothedTiltFactor["TransformToPlayerSpace"],
               TiltTarget(call.args[2].y)),
          Dist(call.pre.tilt["TransformToPlayerSpace"],
               TiltTarget(call.args[2].y)))

\* a is a number of the interval [0, 1]
InUnitInterval(a) == IsFin(a) /\ ~Lt(a, Zero) /\ ~Gt(a, One)

\* C11: every smoothed tilt factor (Local, Player, World space and the
\* dynamic transform) is within [0, 1] in every reachable state, after any
\* sequence of transform calls, gravity updates and sets, and with any
\* gravity arguments.
C11_TiltWithinUnitInterval ==
    \A t \in Transforms : InUnitInterval(smoothedTiltFactor[t])

====
